---- MODULE Spec2Model ----
(***************************************************************************)
(* repo-check (src/src/repo_check/cli.py): the bounded concurrent          *)
(* repository-status scanner.                                              *)
(*                                                                         *)
(* _run_checks runs on one asyncio event loop: each run_one task is a      *)
(* sequence of segments that the loop executes one at a time, and the      *)
(* blocking probe (_check_repo) runs on an executor thread that advances   *)
(* independently of the loop.  asyncio's Semaphore hands a released slot   *)
(* directly to the first waiter (FIFO).  A SIGINT under asyncio.run        *)
(* cancels the main task, which cancels every task at its await point; a   *)
(* segment that is already executing runs to its end.  The executor is     *)
(* joined before asyncio.run returns.                                      *)
(*                                                                         *)
(* The terminal is a grid of rows addressed relative to the row where the  *)
(* program's output starts; it is assumed tall enough never to scroll.     *)
(***************************************************************************)
EXTENDS Integers, Sequences, FiniteSets, TLC

\* ------------------------------------------------------------------ bounds
MaxTargets == 3
MaxWorkers == 2
MaxEntries == 3
Margin == 2

\* --------------------------------------------------------------- constants
ANSI_RESET == "ESC[0m"
ANSI_RED == "ESC[31m"
ANSI_GREEN == "ESC[32m"
ANSI_YELLOW == "ESC[33m"
ANSI_BLUE == "ESC[34m"
ANSI_DIM == "ESC[2m"

AnsiCodes == {ANSI_RESET, ANSI_RED, ANSI_GREEN, ANSI_YELLOW, ANSI_BLUE, ANSI_DIM}

\* The label the tests expect for a repository without commits
\* (cli.LABEL_NO_COMMITS in tests/test_cli.py).
LABEL_NO_COMMITS == "no commits"

\* Optional[...] values
None == [none |-> TRUE]
NoStr == "<None>"
NoBool == "None"

\* ------------------------------------------------------------ the git tool
\* One external-tool behaviour for one path: whether the executable can be
\* run at all, and the (returncode, stdout, stderr) of each query.
Resp(c, o, e) == [code |-> c, out |-> o, err |-> e]

UNBORN_ERR == "fatal: ambiguous argument 'HEAD'\n"

InsideResps == {Resp(0, "true\n", ""), Resp(128, "", "fatal: not a git repository\n")}
BranchResps ==
    {Resp(0, "main\n", ""), Resp(0, "HEAD\n", ""),
     Resp(128, "", UNBORN_ERR), Resp(128, "", "fatal: bad object\n"),
     Resp(1, "", ""), Resp(1, "", "\n")}
StatusResps ==
    {Resp(0, "", ""), Resp(0, " M f\n", ""), Resp(0, "?? g\n", ""),
     Resp(128, "", "fatal: index corrupt\n"), Resp(1, "", "")}

GitEnvs ==
    [ok : BOOLEAN, inside : InsideResps, branch : BranchResps, status : StatusResps]

\* str.strip() on the outputs the tool produces here
strip(s) ==
    CASE s = "true\n" -> "true"
      [] s = "main\n" -> "main"
      [] s = "HEAD\n" -> "HEAD"
      [] s = " M f\n" -> "M f"
      [] s = "?? g\n" -> "?? g"
      [] s = "\n" -> ""
      [] s = UNBORN_ERR -> "fatal: ambiguous argument 'HEAD'"
      [] s = "fatal: bad object\n" -> "fatal: bad object"
      [] s = "fatal: index corrupt\n" -> "fatal: index corrupt"
      [] s = "fatal: not a git repository\n" -> "fatal: not a git repository"
      [] OTHER -> s

Q_INSIDE == "rev-parse --is-inside-work-tree"
Q_BRANCH == "rev-parse --abbrev-ref HEAD"
Q_STATUS == "status --porcelain"

Raise == [raised |-> TRUE]

\* subprocess.run raises (OSError) when the executable cannot be started;
\* otherwise the stripped triple is returned.
_run_git(env, args) ==
    IF ~env.ok THEN Raise
    ELSE LET r == CASE args = Q_INSIDE -> env.inside
                    [] args = Q_BRANCH -> env.branch
                    [] OTHER -> env.status
         IN  Resp(r.code, strip(r.out), strip(r.err))

RepoResult(n, p, r, b, c, e) ==
    [name |-> n, path |-> p, is_repo |-> r, branch |-> b, is_clean |-> c, error |-> e]

\* `x or None` on a str
OrNone(s) == IF s = "" THEN NoStr ELSE s

\* (variant) a path that is not a work tree is still asked for its branch, and
\* the tool's complaint is kept as the error
CheckRepoRunNoEarlyReturn(path, name, env) ==
    LET r1 == _run_git(env, Q_INSIDE) IN
    IF r1 = Raise THEN [ret |-> Raise, calls |-> <<Q_INSIDE>>]
    ELSE IF r1.code # 0
    THEN [ret |-> RepoResult(name, path, FALSE, NoStr, NoBool, OrNone(r1.err)),
          calls |-> <<Q_INSIDE, Q_BRANCH>>]
    ELSE
    LET r2 == _run_git(env, Q_BRANCH) IN
    IF r2.code # 0
    THEN [ret |-> RepoResult(name, path, TRUE, NoStr, NoBool, OrNone(r2.err)),
          calls |-> <<Q_INSIDE, Q_BRANCH>>]
    ELSE
    LET r3 == _run_git(env, Q_STATUS) IN
    IF r3.code # 0
    THEN [ret |-> RepoResult(name, path, TRUE, r2.out, NoBool, OrNone(r3.err)),
          calls |-> <<Q_INSIDE, Q_BRANCH, Q_STATUS>>]
    ELSE [ret |-> RepoResult(name, path, TRUE, r2.out,
                             IF r3.out = "" THEN "True" ELSE "False", NoStr),
          calls |-> <<Q_INSIDE, Q_BRANCH, Q_STATUS>>]

\* _check_repo together with the queries it issued, in order.
CheckRepoRun(path, name, env) ==
    LET r1 == _run_git(env, Q_INSIDE) IN
    IF r1 = Raise THEN [ret |-> Raise, calls |-> <<Q_INSIDE>>]
    ELSE IF r1.code # 0
    THEN [ret |-> RepoResult(name, path, FALSE, NoStr, NoBool, NoStr),
          calls |-> <<Q_INSIDE>>]
    ELSE
    LET r2 == _run_git(env, Q_BRANCH) IN
    IF r2.code # 0
    THEN [ret |-> RepoResult(name, path, TRUE, NoStr, NoBool, OrNone(r2.err)),
          calls |-> <<Q_INSIDE, Q_BRANCH>>]
    ELSE
    LET r3 == _run_git(env, Q_STATUS) IN
    IF r3.code # 0
    THEN [ret |-> RepoResult(name, path, TRUE, r2.out, NoBool, OrNone(r3.err)),
          calls |-> <<Q_INSIDE, Q_BRANCH, Q_STATUS>>]
    ELSE [ret |-> RepoResult(name, path, TRUE, r2.out,
                             IF r3.out = "" THEN "True" ELSE "False", NoStr),
          calls |-> <<Q_INSIDE, Q_BRANCH, Q_STATUS>>]

_check_repo(path, name, env) == CheckRepoRun(path, name, env).ret

\* --------------------------------------------------------------- rendering
_color(text, code, use_color) ==
    IF ~use_color THEN <<text>> ELSE <<code, text, ANSI_RESET>>

\* (variant) the error marker is never appended
RenderLineNoError(name, result, use_color) ==
    IF result = None
    THEN <<name, "  ">> \o _color("pending", ANSI_DIM, use_color)
    ELSE IF ~result.is_repo
    THEN <<name, "  ">> \o _color("not a git repo", ANSI_YELLOW, use_color)
    ELSE
    LET branch == IF result.branch = NoStr \/ result.branch = ""
                  THEN "unknown" ELSE result.branch
        branch_label == IF branch = "HEAD"
                        THEN _color("detached", ANSI_BLUE, use_color)
                        ELSE _color(branch, ANSI_BLUE, use_color)
        clean_label == IF result.is_clean = "True"
                       THEN _color("clean", ANSI_GREEN, use_color)
                       ELSE IF result.is_clean = "False"
                       THEN _color("dirty", ANSI_RED, use_color)
                       ELSE _color("unknown", ANSI_YELLOW, use_color)
    IN  <<name, "  ">> \o branch_label \o <<"  ">> \o clean_label

RenderLine(name, result, use_color) ==
    IF result = None
    THEN <<name, "  ">> \o _color("pending", ANSI_DIM, use_color)
    ELSE IF ~result.is_repo
    THEN <<name, "  ">> \o _color("not a git repo", ANSI_YELLOW, use_color)
    ELSE
    LET branch == IF result.branch = NoStr \/ result.branch = ""
                  THEN "unknown" ELSE result.branch
        branch_label == IF branch = "HEAD"
                        THEN _color("detached", ANSI_BLUE, use_color)
                        ELSE _color(branch, ANSI_BLUE, use_color)
        clean_label == IF result.is_clean = "True"
                       THEN _color("clean", ANSI_GREEN, use_color)
                       ELSE IF result.is_clean = "False"
                       THEN _color("dirty", ANSI_RED, use_color)
                       ELSE _color("unknown", ANSI_YELLOW, use_color)
        base == <<name, "  ">> \o branch_label \o <<"  ">> \o clean_label
    IN  IF result.error # NoStr /\ result.error # ""
        THEN base \o <<"  ">> \o _color("error", ANSI_RED, use_color)
        ELSE base

_render_lines(nms, res, use_color) ==
    [idx \in 1..Len(nms) |-> RenderLine(nms[idx], res[idx], use_color)]

\* ---------------------------------------------------------------- terminal
Blank == <<>>
Prior == <<"(earlier output)">>
MaxRow == MaxTargets + 3
Rows == (0 - Margin)..MaxRow

ScreenAt(t, r) == IF r \in Rows THEN t.screen[r] ELSE Blank

\* a line written over a row that was not erased leaves a mix of both
Overlay(line, old) == IF old = Blank \/ old = line THEN line ELSE <<"(garbled)">> \o line

CursorUp(t, n) == [t EXCEPT !.row = t.row - n, !.ctrl = t.ctrl + 1]

\* "\x1b[2K\r\n": erase the cursor's row, go to the start of the next row
EraseLine(t) ==
    [t EXCEPT !.screen = [t.screen EXCEPT ![t.row] = Blank],
              !.row = t.row + 1, !.ctrl = t.ctrl + 1]

RECURSIVE EraseLines(_, _)
EraseLines(t, k) == IF k = 0 THEN t ELSE EraseLines(EraseLine(t), k - 1)

\* (variant) one line too few is erased
_clear_lines_short(t, line_count) ==
    IF line_count <= 1 THEN t
    ELSE CursorUp(EraseLines(CursorUp(t, line_count - 1), line_count - 1), line_count - 1)

_clear_lines(t, line_count) ==
    IF line_count <= 0 THEN t
    ELSE CursorUp(EraseLines(CursorUp(t, line_count), line_count), line_count)

\* sys.stdout.write(line + "\n")
WriteLine(t, line) ==
    [t EXCEPT !.screen = [t.screen EXCEPT ![t.row] = Overlay(line, ScreenAt(t, t.row))],
              !.row = t.row + 1]

RECURSIVE WriteLines(_, _, _)
WriteLines(t, lines, k) ==
    IF k > Len(lines) THEN t ELSE WriteLines(WriteLine(t, lines[k]), lines, k + 1)

_print_block(t, lines) ==
    LET u == WriteLines(t, lines, 1) IN [u EXCEPT !.blocks = u.blocks + 1]

\* print("\nInterrupted.")
PrintInterrupted(t) ==
    WriteLine([t EXCEPT !.row = t.row + 1], <<"Interrupted.">>)

Term0 ==
    [row |-> 0,
     screen |-> [r \in Rows |-> IF r < 0 THEN Prior ELSE Blank],
     ctrl |-> 0,
     blocks |-> 0]

\* ------------------------------------------------------- scan-target builder
\* A path is the sequence of its components.  os.scandir yields a directory's
\* entries in an order of the filesystem's choosing; an entry is a name and
\* whether it is a directory (not a symlink).
Entry(n, isdir) == [name |-> n, dir |-> isdir]

\* str.lower() on the names used here
lower(n) ==
    CASE n = "B" -> "b"
      [] n = "E" -> "e"
      [] OTHER -> n

\* position of a lower-cased name in Python's string order
KeyOrd(k) ==
    CASE k = ".h" -> 1
      [] k = "b" -> 2
      [] k = "c" -> 3
      [] k = "e" -> 4
      [] OTHER -> 5

SortKey(item) == KeyOrd(lower(item[1]))

\* name.startswith(".")
IsHidden(n) == n = ".h"

\* list.sort is stable: an item goes behind every item whose key is not larger
RECURSIVE InsertByKey(_, _)
InsertByKey(item, sorted) ==
    IF sorted = <<>> THEN <<item>>
    ELSE IF SortKey(Head(sorted)) <= SortKey(item)
         THEN <<Head(sorted)>> \o InsertByKey(item, Tail(sorted))
         ELSE <<item>> \o sorted

RECURSIVE SortByKey(_, _)
SortByKey(items, k) ==
    IF k = 0 THEN <<>> ELSE InsertByKey(items[k], SortByKey(items, k - 1))

RECURSIVE Collect(_, _, _, _)
Collect(listing, base_path, include_hidden, k) ==
    IF k > Len(listing) THEN <<>>
    ELSE LET entry == listing[k]
             rest == Collect(listing, base_path, include_hidden, k + 1)
         IN  IF ~entry.dir THEN rest
             ELSE IF ~include_hidden /\ IsHidden(entry.name) THEN rest
             ELSE <<<<entry.name, Append(base_path, entry.name)>>>> \o rest

\* (variant) the entries are returned in the order scandir gave them
_list_subfolders_unsorted(listing, base_path, include_hidden) ==
    Collect(listing, base_path, include_hidden, 1)

\* (variant) the hidden-name test is left out
_list_subfolders_with_hidden(listing, base_path, include_hidden) ==
    LET entries == Collect(listing, base_path, TRUE, 1)
    IN  SortByKey(entries, Len(entries))

\* _list_subfolders, given what os.scandir(base_path) enumerates
_list_subfolders(listing, base_path, include_hidden) ==
    LET entries == Collect(listing, base_path, include_hidden, 1)
    IN  SortByKey(entries, Len(entries))

BASE == <<"base">>
BASE_B == <<"base", "b">>
\* the tree marker, in ASCII
TREE_MARKER == "|_ "

\* what scandir enumerates for a path of the filesystem fs
Listing(fs, path) ==
    IF path = BASE THEN fs.ls_base
    ELSE IF path = BASE_B THEN fs.ls_b
    ELSE <<>>

SeqRange(q) == {q[k] : k \in 1..Len(q)}

\* display name of a target: the bare name, tree-prefixed below depth 0
DisplayName(n, depth) == IF depth = 0 THEN n ELSE TREE_MARKER \o n

ScanTarget(n, p, depth) == [name |-> DisplayName(n, depth), path |-> p, depth |-> depth]

NotIgnored(ignore_entries, item) == item[1] \notin ignore_entries

\* The builder: roots in the order given; the subdirectories of a root,
\* filtered and sorted; a subdirectory that is itself a root not yet
\* processed is expanded in place, one level deeper, and consumed.
RECURSIVE ExpandSubs(_, _, _, _, _)
ExpandSubs(inp, subs, k, depth, st) ==
    IF k > Len(subs) THEN st
    ELSE LET S == subs[k]
             st1 == [st EXCEPT !.out = Append(@, ScanTarget(S[1], S[2], depth))]
             nested == S[2] \in SeqRange(inp.roots) /\ S[2] \notin st.consumed
             subs2 == SelectSeq(_list_subfolders(Listing(inp, S[2]), S[2], inp.include_hidden),
                                LAMBDA it : NotIgnored(inp.ignore_entries, it))
             st2 == IF nested
                    THEN ExpandSubs(inp, subs2, 1, depth + 1,
                                    [st1 EXCEPT !.consumed = @ \cup {S[2]}])
                    ELSE st1
         IN  ExpandSubs(inp, subs, k + 1, depth, st2)

RECURSIVE BuildFrom(_, _, _)
BuildFrom(inp, j, st) ==
    IF j > Len(inp.roots) THEN st.out
    ELSE LET R == inp.roots[j]
             subs == SelectSeq(_list_subfolders(Listing(inp, R), R, inp.include_hidden),
                               LAMBDA it : NotIgnored(inp.ignore_entries, it))
         IN  IF R \in st.consumed THEN BuildFrom(inp, j + 1, st)
             ELSE BuildFrom(inp, j + 1,
                            ExpandSubs(inp, subs, 1, 0,
                                       [st EXCEPT !.consumed = @ \cup {R}]))

_build_scan_list(inp) == BuildFrom(inp, 1, [out |-> <<>>, consumed |-> {}])

\* ----------------------------------------------------------------- scanner
VARIABLES
    names_and_paths,  \* the scan targets, in display order
    max_workers,      \* args.max_workers
    isatty,           \* sys.stdout.isatty()
    no_color,         \* args.no_color
    fate,             \* per target: the probe "returns", "raises" or "hangs"
    mainpc,           \* position of main / _run_checks
    names,            \* _run_checks.names
    results,          \* _run_checks.results
    semaphore,        \* value of the admission semaphore
    waiters,          \* FIFO of tasks blocked in semaphore.acquire()
    pc,               \* position of each run_one task
    cur,              \* the task whose segment the event loop is executing (0: none)
    probe,            \* state of each executor job running _check_repo
    fut,              \* value the executor future of each job resolved to
    term,             \* the terminal
    interrupted,      \* a SIGINT has been delivered
    exit,             \* how the process ended
    probeEnv,         \* tool behaviour given to a stand-alone _check_repo call
    probeOut,         \* what that call returned and which queries it issued
    scanIn,           \* filesystem and arguments given to a stand-alone builder call
    scanOut           \* the scan list that call returned

vars == <<names_and_paths, max_workers, isatty, no_color, fate, mainpc, names,
          results, semaphore, waiters, pc, cur, probe, fut, term, interrupted,
          exit, probeEnv, probeOut, scanIn, scanOut>>

inputs == <<names_and_paths, max_workers, isatty, no_color, fate>>
probeVars == <<probeEnv, probeOut>>
scanVars == <<scanIn, scanOut>>
pureVars == <<probeVars, scanVars>>

Name(i) == "repo" \o ToString(i)
Path(i) == "/base/repo" \o ToString(i)

N == Len(names_and_paths)
Targets == 1..N

\* (variant) dynamic rendering decided by the terminal alone
allow_dynamic_tty == isatty

\* main, lines 207-208
use_color == isatty /\ ~no_color

allow_dynamic == use_color /\ isatty /\ ~no_color

\* Tool behaviours the scanner's probes meet: not a repository, a clean
\* repository, a repository whose branch lookup fails with an error text.
ScanEnvs ==
    {[ok |-> TRUE, inside |-> Resp(128, "", "fatal: not a git repository\n"),
      branch |-> Resp(0, "main\n", ""), status |-> Resp(0, "", "")],
     [ok |-> TRUE, inside |-> Resp(0, "true\n", ""),
      branch |-> Resp(0, "main\n", ""), status |-> Resp(0, "", "")],
     [ok |-> TRUE, inside |-> Resp(0, "true\n", ""),
      branch |-> Resp(128, "", "fatal: bad object\n"), status |-> Resp(0, "", "")]}

\* ... and the tool that cannot be started
BrokenEnvs ==
    {[ok |-> FALSE, inside |-> Resp(0, "true\n", ""),
      branch |-> Resp(0, "main\n", ""), status |-> Resp(0, "", "")]}

\* no builder call: an empty directory, nothing built
NoScan == [ls_base |-> <<>>, ls_b |-> <<>>, roots |-> <<BASE>>,
           include_hidden |-> FALSE, ignore_entries |-> {}]
NotBuilt == [built |-> FALSE, targets |-> <<>>]

NotRun == [ret |-> None, calls |-> <<>>]

Init ==
    /\ \E n \in 1..MaxTargets :
          names_and_paths = [i \in 1..n |-> <<Name(i), Path(i)>>]
    /\ max_workers \in 0..MaxWorkers
    /\ isatty \in BOOLEAN
    /\ no_color \in BOOLEAN
    /\ fate \in [1..Len(names_and_paths) -> {"returns", "raises", "hangs"}]
    /\ mainpc = "entry"
    /\ names = <<>>
    /\ results = <<>>
    /\ semaphore = 0
    /\ waiters = <<>>
    /\ pc = [i \in 1..Len(names_and_paths) |-> "none"]
    /\ cur = 0
    /\ probe = [i \in 1..Len(names_and_paths) |-> "none"]
    /\ fut = [i \in 1..Len(names_and_paths) |-> None]
    /\ term = Term0
    /\ interrupted = FALSE
    /\ exit = "running"
    /\ probeEnv = CHOOSE e \in ScanEnvs : TRUE
    /\ probeOut = NotRun
    /\ scanIn = NoScan
    /\ scanOut = NotBuilt

\* (variant) the cap is raised to at least one before it reaches the semaphore
AllocateClamped ==
    /\ mainpc = "entry"
    /\ names' = [i \in 1..Len(names_and_paths) |-> names_and_paths[i][1]]
    /\ results' = [i \in 1..Len(names_and_paths) |-> None]
    /\ semaphore' = IF max_workers < 1 THEN 1 ELSE max_workers
    /\ mainpc' = "allocated"
    /\ UNCHANGED <<inputs, waiters, pc, cur, probe, fut, term, interrupted, exit, pureVars>>

\* (variant) the table is allocated one slot short
AllocateShort ==
    /\ mainpc = "entry"
    /\ names' = [i \in 1..Len(names_and_paths) |-> names_and_paths[i][1]]
    /\ results' = [i \in 1..(Len(names_and_paths) - 1) |-> None]
    /\ semaphore' = max_workers
    /\ mainpc' = "allocated"
    /\ UNCHANGED <<inputs, waiters, pc, cur, probe, fut, term, interrupted, exit, pureVars>>

\* lines 140-144: names, the result table, the semaphore
Allocate ==
    /\ mainpc = "entry"
    /\ names' = [i \in 1..Len(names_and_paths) |-> names_and_paths[i][1]]
    /\ results' = [i \in 1..Len(names_and_paths) |-> None]
    /\ semaphore' = max_workers
    /\ mainpc' = "allocated"
    /\ UNCHANGED <<inputs, waiters, pc, cur, probe, fut, term, interrupted, exit, pureVars>>

\* lines 154-158: the initial block, then one task per target; main awaits gather
Dispatch ==
    /\ mainpc = "allocated"
    /\ term' = IF allow_dynamic
               THEN _print_block(term, _render_lines(names, results, use_color))
               ELSE term
    /\ pc' = [i \in Targets |-> "ready"]
    /\ mainpc' = "gather"
    /\ UNCHANGED <<inputs, names, results, semaphore, waiters, cur, probe, fut,
                   interrupted, exit, pureVars>>

\* (variant) admission that never looks at the semaphore
CanAcquireAlways == TRUE

\* Semaphore.acquire without suspension
CanAcquire == semaphore > 0 /\ waiters = <<>>

\* lines 146-148, first segment of run_one: the tasks are started by the loop
\* in creation order, each either admitted (its job submitted to the executor)
\* or queued on the semaphore
TaskStart(i) ==
    /\ i \in Targets
    /\ mainpc = "gather"
    /\ cur = 0
    /\ pc[i] = "ready"
    /\ \A j \in Targets : j < i => pc[j] # "ready"
    /\ IF CanAcquire
       THEN /\ semaphore' = semaphore - 1
            /\ probe' = [probe EXCEPT ![i] = "queued"]
            /\ pc' = [pc EXCEPT ![i] = "probing"]
            /\ UNCHANGED waiters
       ELSE /\ waiters' = Append(waiters, i)
            /\ pc' = [pc EXCEPT ![i] = "waiting"]
            /\ UNCHANGED <<semaphore, probe>>
    /\ UNCHANGED <<inputs, mainpc, names, results, cur, fut, term, interrupted,
                   exit, pureVars>>

\* line 147-148: a task that was handed a slot resumes and submits its job
TaskWake(i) ==
    /\ i \in Targets
    /\ cur = 0
    /\ pc[i] = "woken"
    /\ probe' = [probe EXCEPT ![i] = "queued"]
    /\ pc' = [pc EXCEPT ![i] = "probing"]
    /\ UNCHANGED <<inputs, mainpc, names, results, semaphore, waiters, cur, fut,
                   term, interrupted, exit, pureVars>>

\* an executor thread takes the job and enters _check_repo
ProbeStart(i) ==
    /\ i \in Targets
    /\ probe[i] = "queued"
    /\ probe' = [probe EXCEPT ![i] = "running"]
    /\ UNCHANGED <<inputs, mainpc, names, results, semaphore, waiters, pc, cur,
                   fut, term, interrupted, exit, pureVars>>

\* _check_repo leaves the thread: with a result, or with the exception that
\* _run_git let through
ProbeFinish(i) ==
    /\ i \in Targets
    /\ probe[i] = "running"
    /\ fate[i] # "hangs"
    /\ \E env \in (IF fate[i] = "raises" THEN BrokenEnvs ELSE ScanEnvs) :
          LET r == _check_repo(names_and_paths[i][2], names_and_paths[i][1], env)
             IN  IF r = Raise
                 THEN /\ probe' = [probe EXCEPT ![i] = "raised"]
                      /\ UNCHANGED fut
                 ELSE /\ probe' = [probe EXCEPT ![i] = "returned"]
                      /\ fut' = [fut EXCEPT ![i] = r]
    /\ UNCHANGED <<inputs, mainpc, names, results, semaphore, waiters, pc, cur,
                   term, interrupted, exit, pureVars>>

\* (variant) a release that only counts and wakes nobody
ReleaseNoWake(i) ==
    /\ pc' = [pc EXCEPT ![i] = IF probe[i] = "raised" THEN "failed" ELSE "released"]
    /\ semaphore' = semaphore + 1
    /\ UNCHANGED waiters

\* Semaphore.release: the slot goes to the first waiter, or back to the counter
Release(i) ==
    IF waiters # <<>>
    THEN /\ pc' = [pc EXCEPT ![i] = IF probe[i] = "raised" THEN "failed" ELSE "released",
                             ![Head(waiters)] = "woken"]
         /\ waiters' = Tail(waiters)
         /\ UNCHANGED semaphore
    ELSE /\ pc' = [pc EXCEPT ![i] = IF probe[i] = "raised" THEN "failed" ELSE "released"]
         /\ semaphore' = semaphore + 1
         /\ UNCHANGED waiters

\* line 148 completes and `async with` exits (line 147): the slot is released;
\* an exception of the probe ends the task here
TaskResume(i) ==
    /\ i \in Targets
    /\ cur = 0
    /\ pc[i] = "probing"
    /\ probe[i] \in {"returned", "raised"}
    /\ Release(i)
    /\ cur' = IF probe[i] = "raised" THEN 0 ELSE i
    /\ UNCHANGED <<inputs, mainpc, names, results, probe, fut, term, interrupted,
                   exit, pureVars>>

\* (variant) the result goes to the first slot that is still empty
TaskWriteByCompletion(i) ==
    /\ i \in Targets
    /\ cur = i
    /\ pc[i] = "released"
    /\ LET free == {j \in Targets : results[j] = None}
           k == IF free = {} THEN i ELSE CHOOSE j \in free : \A l \in free : j <= l
       IN  results' = [results EXCEPT ![k] = fut[i]]
    /\ pc' = [pc EXCEPT ![i] = IF allow_dynamic THEN "written" ELSE "done"]
    /\ cur' = IF allow_dynamic THEN i ELSE 0
    /\ UNCHANGED <<inputs, mainpc, names, semaphore, waiters, probe, fut, term,
                   interrupted, exit, pureVars>>

\* (variant) the result goes to the slot after its own
TaskWriteNext(i) ==
    /\ i \in Targets
    /\ cur = i
    /\ pc[i] = "released"
    /\ results' = [results EXCEPT ![(i % N) + 1] = fut[i]]
    /\ pc' = [pc EXCEPT ![i] = IF allow_dynamic THEN "written" ELSE "done"]
    /\ cur' = IF allow_dynamic THEN i ELSE 0
    /\ UNCHANGED <<inputs, mainpc, names, semaphore, waiters, probe, fut, term,
                   interrupted, exit, pureVars>>

\* line 149
TaskWrite(i) ==
    /\ i \in Targets
    /\ cur = i
    /\ pc[i] = "released"
    /\ results' = [results EXCEPT ![i] = fut[i]]
    /\ pc' = [pc EXCEPT ![i] = IF allow_dynamic THEN "written" ELSE "done"]
    /\ cur' = IF allow_dynamic THEN i ELSE 0
    /\ UNCHANGED <<inputs, mainpc, names, semaphore, waiters, probe, fut, term,
                   interrupted, exit, pureVars>>

\* (variant) the block is rendered from the table as it was before the write
TaskRepaintStale(i) ==
    /\ i \in Targets
    /\ cur = i
    /\ pc[i] = "written"
    /\ term' = _print_block(_clear_lines(term, Len(names)),
                            _render_lines(names, [results EXCEPT ![i] = None], use_color))
    /\ pc' = [pc EXCEPT ![i] = "done"]
    /\ cur' = 0
    /\ UNCHANGED <<inputs, mainpc, names, results, semaphore, waiters, probe, fut,
                   interrupted, exit, pureVars>>

\* lines 150-152
TaskRepaint(i) ==
    /\ i \in Targets
    /\ cur = i
    /\ pc[i] = "written"
    /\ term' = _print_block(_clear_lines(term, Len(names)),
                            _render_lines(names, results, use_color))
    /\ pc' = [pc EXCEPT ![i] = "done"]
    /\ cur' = 0
    /\ UNCHANGED <<inputs, mainpc, names, results, semaphore, waiters, probe, fut,
                   interrupted, exit, pureVars>>

\* lines 158-161 and the return of main: gather has every task's result
Complete ==
    /\ mainpc = "gather"
    /\ cur = 0
    /\ \A i \in Targets : pc[i] = "done"
    /\ term' = IF ~allow_dynamic
               THEN _print_block(term, _render_lines(names, results, use_color))
               ELSE term
    /\ mainpc' = "complete"
    /\ exit' = "ok"
    /\ UNCHANGED <<inputs, names, results, semaphore, waiters, pc, cur, probe, fut,
                   interrupted, pureVars>>

\* (variant) a task that was already handed a slot escapes the cancellation
CancelTasksNotWoken ==
    LET hit == {i \in Targets : i # cur /\ pc[i] \in {"ready", "waiting", "probing"}}
        held == {i \in hit : pc[i] = "probing"}
    IN  /\ pc' = [i \in Targets |-> IF i \in hit THEN "cancelled" ELSE pc[i]]
        /\ semaphore' = semaphore + Cardinality(held)
        /\ waiters' = <<>>
        /\ \E dropped \in SUBSET {i \in Targets : probe[i] = "queued"} :
              probe' = [i \in Targets |-> IF i \in dropped THEN "cancelled" ELSE probe[i]]

\* Task.cancel() on every task that is suspended or not yet started: it never
\* runs its next segment, and one that held a slot gives it back.  The
\* cancellation of its executor future races with the executor thread: a job
\* still in the executor's queue is either dropped or started all the same.
\* The segment the loop is executing is not interrupted.
CancelTasks ==
    LET hit == {i \in Targets : i # cur /\ pc[i] \in {"ready", "waiting", "woken", "probing"}}
        held == {i \in hit : pc[i] \in {"woken", "probing"}}
    IN  /\ pc' = [i \in Targets |-> IF i \in hit THEN "cancelled" ELSE pc[i]]
        /\ semaphore' = semaphore + Cardinality(held)
        /\ waiters' = <<>>
        /\ \E dropped \in SUBSET {i \in Targets : probe[i] = "queued"} :
              probe' = [i \in Targets |-> IF i \in dropped THEN "cancelled" ELSE probe[i]]

\* SIGINT while asyncio.run(_run_checks(...)) is running (main, line 211)
Interrupt ==
    /\ mainpc = "gather"
    /\ ~interrupted
    /\ interrupted' = TRUE
    /\ CancelTasks
    /\ mainpc' = "cancelling"
    /\ UNCHANGED <<inputs, names, results, cur, fut, term, exit, pureVars>>

\* main, lines 212-213: asyncio.run has joined the executor and raised
\* KeyboardInterrupt; main reports it and returns
MainInterrupted ==
    /\ mainpc = "cancelling"
    /\ cur = 0
    /\ \A i \in Targets : probe[i] \notin {"queued", "running"}
    /\ term' = PrintInterrupted(term)
    /\ mainpc' = "interrupted"
    /\ exit' = "ok"
    /\ UNCHANGED <<inputs, names, results, semaphore, waiters, pc, cur, probe, fut,
                   interrupted, pureVars>>

\* line 158: gather passes the first exception of a task to _run_checks, which
\* raises out of asyncio.run; the remaining tasks are cancelled
GatherRaise ==
    /\ mainpc = "gather"
    /\ cur = 0
    /\ \E i \in Targets : pc[i] = "failed"
    /\ CancelTasks
    /\ mainpc' = "raising"
    /\ UNCHANGED <<inputs, names, results, cur, fut, term, interrupted, exit, pureVars>>

\* main, lines 210-213: only KeyboardInterrupt is caught; any other exception
\* leaves main once the executor is joined
MainCrash ==
    /\ mainpc = "raising"
    /\ \A i \in Targets : probe[i] \notin {"queued", "running"}
    /\ mainpc' = "crashed"
    /\ exit' = "traceback"
    /\ UNCHANGED <<inputs, names, results, semaphore, waiters, pc, cur, probe, fut,
                   term, interrupted, pureVars>>

Next ==
    \/ Allocate
    \/ Dispatch
    \/ \E i \in Targets : TaskStart(i)
    \/ \E i \in Targets : TaskWake(i)
    \/ \E i \in Targets : ProbeStart(i)
    \/ \E i \in Targets : ProbeFinish(i)
    \/ \E i \in Targets : TaskResume(i)
    \/ \E i \in Targets : TaskWrite(i)
    \/ \E i \in Targets : TaskRepaint(i)
    \/ Complete
    \/ Interrupt
    \/ MainInterrupted
    \/ GatherRaise
    \/ MainCrash

Spec == Init /\ [][Next]_vars

\* Everything except the arrival of a SIGINT
Progress ==
    \/ Allocate
    \/ Dispatch
    \/ \E i \in Targets : TaskStart(i)
    \/ \E i \in Targets : TaskWake(i)
    \/ \E i \in Targets : ProbeStart(i)
    \/ \E i \in Targets : ProbeFinish(i)
    \/ \E i \in Targets : TaskResume(i)
    \/ \E i \in Targets : TaskWrite(i)
    \/ \E i \in Targets : TaskRepaint(i)
    \/ Complete
    \/ MainInterrupted
    \/ GatherRaise
    \/ MainCrash

\* The loop runs a runnable segment, executor threads run, a probe that does
\* not hang leaves _check_repo: the program does not stop while it has a step
\* to take.  Nothing obliges a SIGINT to arrive.
Fairness == WF_vars(Progress)

FairSpec == Spec /\ Fairness

\* ------------------------------------------- _check_repo called on its own
ProbeInit ==
    /\ names_and_paths = <<<<"repo", "/tmp/repo">>>>
    /\ max_workers = 1
    /\ isatty = FALSE
    /\ no_color = FALSE
    /\ fate = [i \in {1} |-> "returns"]
    /\ mainpc = "entry"
    /\ names = <<>>
    /\ results = <<>>
    /\ semaphore = 0
    /\ waiters = <<>>
    /\ pc = [i \in {1} |-> "none"]
    /\ cur = 0
    /\ probe = [i \in {1} |-> "none"]
    /\ fut = [i \in {1} |-> None]
    /\ term = Term0
    /\ interrupted = FALSE
    /\ exit = "running"
    /\ probeEnv \in GitEnvs
    /\ probeOut = NotRun
    /\ scanIn = NoScan
    /\ scanOut = NotBuilt

\* cli._check_repo("/tmp/repo", "repo") against the tool behaviour probeEnv
ProbeCall ==
    /\ probeOut = NotRun
    /\ probeOut' = CheckRepoRun(names_and_paths[1][2], names_and_paths[1][1], probeEnv)
    /\ UNCHANGED <<inputs, mainpc, names, results, semaphore, waiters, pc, cur,
                   probe, fut, term, interrupted, exit, probeEnv, scanVars>>

ProbeNext == ProbeCall

ProbeSpec == ProbeInit /\ [][ProbeNext]_vars

\* The builder on its own: a filesystem of two directories, base and base/b,
\* each enumerated in any order, and the arguments of one call.
BaseEntries == {Entry("b", TRUE), Entry("B", TRUE), Entry("c", TRUE),
                Entry(".h", TRUE), Entry("f", FALSE)}
SubEntries == {Entry("e", TRUE), Entry("E", TRUE)}

Enumerations(U) ==
    {q \in UNION {[1..n -> U] : n \in 0..MaxEntries} :
        \A a, b \in 1..Len(q) : a # b => q[a] # q[b]}

RootChoices == {<<BASE>>, <<BASE_B>>, <<BASE, BASE_B>>, <<BASE_B, BASE>>}
IgnoreChoices == {{}, {"c"}, {"e", "B"}}

ScanInputs ==
    {inp \in [ls_base : Enumerations(BaseEntries), ls_b : Enumerations(SubEntries),
              roots : RootChoices, include_hidden : BOOLEAN,
              ignore_entries : IgnoreChoices] :
        Entry("b", TRUE) \notin SeqRange(inp.ls_base)
            => inp.ls_b = <<>> /\ BASE_B \notin SeqRange(inp.roots)}

BuildInit ==
    /\ names_and_paths = <<<<"repo", "/tmp/repo">>>>
    /\ max_workers = 1
    /\ isatty = FALSE
    /\ no_color = FALSE
    /\ fate = [i \in {1} |-> "returns"]
    /\ mainpc = "entry"
    /\ names = <<>>
    /\ results = <<>>
    /\ semaphore = 0
    /\ waiters = <<>>
    /\ pc = [i \in {1} |-> "none"]
    /\ cur = 0
    /\ probe = [i \in {1} |-> "none"]
    /\ fut = [i \in {1} |-> None]
    /\ term = Term0
    /\ interrupted = FALSE
    /\ exit = "running"
    /\ probeEnv = CHOOSE e \in ScanEnvs : TRUE
    /\ probeOut = NotRun
    /\ scanIn \in ScanInputs
    /\ scanOut = NotBuilt

\* cli._build_scan_list(roots, include_hidden, ignore_entries) on that filesystem
BuildCall ==
    /\ ~scanOut.built
    /\ scanOut' = [built |-> TRUE, targets |-> _build_scan_list(scanIn)]
    /\ UNCHANGED <<inputs, mainpc, names, results, semaphore, waiters, pc, cur,
                   probe, fut, term, interrupted, exit, probeVars, scanIn>>

BuildNext == BuildCall

BuildSpec == BuildInit /\ [][BuildNext]_vars

\* ------------------------------------------------------------------ claims
\* A measure that every step of the program lowers: each position of main, of
\* a task and of an executor job is left for a later one and never re-entered,
\* so no run takes more than Rank steps.
MainRank ==
    CASE mainpc = "entry" -> 3
      [] mainpc = "allocated" -> 2
      [] mainpc = "gather" -> 1
      [] OTHER -> 0

TaskRank(i) ==
    CASE pc[i] = "none" -> 7
      [] pc[i] = "ready" -> 6
      [] pc[i] = "waiting" -> 5
      [] pc[i] = "woken" -> 4
      [] pc[i] = "probing" -> 3
      [] pc[i] = "released" -> 2
      [] pc[i] = "written" -> 1
      [] OTHER -> 0

JobRank(i) ==
    CASE probe[i] = "none" -> 3
      [] probe[i] = "queued" -> 2
      [] probe[i] = "running" -> 1
      [] OTHER -> 0

RECURSIVE SumRank(_)
SumRank(k) == IF k = 0 THEN 0 ELSE TaskRank(k) + JobRank(k) + SumRank(k - 1)

ExitRank == IF mainpc \in {"complete", "interrupted", "crashed"} THEN 0 ELSE 1

Rank == MainRank + ExitRank + SumRank(N)

\* Every step lowers Rank: under FairSpec every run reaches a state in which
\* no step but a SIGINT is possible.
Terminates == [][Rank' < Rank]_vars

\* The run is at rest: no segment of the loop, no executor job and no step of
\* main can run (the guards of the steps of Progress, negated).
Quiescent ==
    /\ mainpc \notin {"entry", "allocated"}
    /\ cur = 0
    /\ \A i \in Targets :
          /\ probe[i] # "queued"
          /\ probe[i] = "running" => fate[i] = "hangs"
          /\ pc[i] # "woken"
          /\ pc[i] = "probing" => probe[i] \notin {"returned", "raised"}
    /\ mainpc = "gather" =>
          /\ \A i \in Targets : pc[i] \notin {"ready", "failed"}
          /\ \E i \in Targets : pc[i] # "done"
    /\ mainpc \in {"cancelling", "raising"} => \E i \in Targets : probe[i] = "running"

\* Quiescent is exactly the states in which Progress cannot take a step
QuiescentIsRest == Quiescent <=> ~ENABLED Progress

Running == {i \in Targets : probe[i] = "running"}
Done == {i \in Targets : pc[i] = "done"}
Populated == mainpc # "entry" /\ \A i \in Targets : results[i] # None

\* C1: the number of probes executing at the same time never exceeds the
\* worker cap; with a cap of 1 no two probes ever execute together.
C1_WorkerCap ==
    /\ Cardinality(Running) <= max_workers
    /\ max_workers = 1 => \A i, j \in Running : i = j

C1_Witness ==
    /\ max_workers >= 1
    /\ Cardinality(Running) = max_workers
    /\ \E i \in Targets : pc[i] = "waiting"

\* what the block shows for target i: the slot as it was at the last repaint
Shown(i) == IF cur = i /\ pc[i] = "written" THEN None ELSE results[i]

\* C2: whatever the completion order, slot i holds the result of probing
\* target i, and every printed block has target i on line i.
C2_IndexOrder ==
    mainpc # "entry" =>
       /\ \A i \in Targets :
             results[i] # None =>
                /\ results[i] = fut[i]
                /\ results[i].name = names_and_paths[i][1]
                /\ results[i].path = names_and_paths[i][2]
       /\ term.blocks > 0 =>
             \A i \in Targets :
                /\ term.screen[i - 1] = RenderLine(names_and_paths[i][1], Shown(i), use_color)
                /\ Head(term.screen[i - 1]) = names_and_paths[i][1]

\* a later target has completed and is displayed while an earlier one is pending
C2_Witness ==
    /\ mainpc # "entry"
    /\ cur = 0
    /\ term.blocks > 1
    /\ \E i, j \in Targets : i < j /\ results[i] = None /\ results[j] # None

\* C4: a slot changes only from empty to the result of its own unit of work,
\* written by that unit; a populated slot never changes again.
C4_SingleWriter ==
    [][mainpc # "entry" =>
          \A i \in Targets :
             results'[i] # results[i] =>
                /\ results[i] = None
                /\ results'[i] = fut[i]
                /\ results'[i] # None
                /\ cur = i
                /\ pc[i] = "released"]_vars

C4_Witness ==
    /\ mainpc # "entry"
    /\ N >= 2
    /\ Cardinality({i \in Targets : results[i] # None}) >= 2

HasAnsi(line) == \E k \in 1..Len(line) : line[k] \in AnsiCodes

\* C7: when stdout is not a terminal or --no-color is given, nothing is
\* written before the scan completes, the block is printed once at
\* completion, and no control or colour sequence is ever written.
C7_NonInteractive ==
    (~isatty \/ no_color) =>
       /\ term.ctrl = 0
       /\ \A r \in Rows : ~HasAnsi(term.screen[r])
       /\ term.blocks = IF mainpc = "complete" THEN 1 ELSE 0
       /\ mainpc \notin {"complete", "interrupted"} => term = Term0
       /\ mainpc = "complete" =>
             /\ \A i \in Targets : pc[i] = "done" /\ probe[i] = "returned"
             /\ \A i \in Targets :
                   term.screen[i - 1] = RenderLine(names[i], results[i], FALSE)

C7_Witness ==
    /\ isatty
    /\ no_color
    /\ mainpc = "complete"
    /\ term.blocks = 1
    /\ N >= 2

\* C8: in interactive mode the all-pending block is printed before any
\* result exists; every completion erases the N lines of the previous block
\* and reprints the block in place, leaving the cursor on the row below an
\* N-line block that starts where the first block started; one repaint per
\* completion.
C8_InPlaceRepaint ==
    (isatty /\ ~no_color /\ mainpc \in {"gather", "complete", "cancelling", "raising", "crashed"}) =>
       /\ term.row = N
       /\ term.blocks = 1 + Cardinality(Done)
       /\ term.ctrl = (N + 2) * Cardinality(Done)
       /\ \A r \in Rows :
             term.screen[r] =
                IF r < 0 THEN Prior
                ELSE IF r < N THEN RenderLine(names[r + 1], Shown(r + 1), TRUE)
                ELSE Blank
       /\ term.blocks = 1 =>
             \A i \in Targets : term.screen[i - 1] = RenderLine(names[i], None, TRUE)
       /\ mainpc = "complete" => term.blocks = N + 1

C8_Witness ==
    /\ isatty
    /\ ~no_color
    /\ mainpc = "complete"
    /\ N >= 2
    /\ term.blocks = N + 1
    /\ term.row = N

AllReturn == \A i \in Targets : fate[i] = "returns"

\* C3: once allocated the table has one slot per target (all empty at
\* allocation); with a positive cap and probes that all return, the run
\* completes, unless it is interrupted, with every slot populated: every step
\* lowers Rank, and the run can only come to rest completed and populated.
C3_TableComplete ==
    /\ [](mainpc # "entry" => Len(results) = Len(names_and_paths))
    /\ [](mainpc = "allocated" => \A i \in Targets : results[i] = None)
    /\ [](mainpc = "complete" => Populated)
    /\ [][Rank' < Rank]_vars
    /\ []((max_workers >= 1 /\ AllReturn /\ ~interrupted /\ Quiescent) =>
             (mainpc = "complete" /\ Populated))

C3_Witness ==
    /\ mainpc = "complete"
    /\ N = MaxTargets
    /\ Len(results) = N
    /\ Populated
    /\ ~interrupted

\* tasks that hold an admission slot
Holding == {i \in Targets : pc[i] \in {"woken", "probing"}}

OneHung(h) ==
    /\ max_workers >= 2
    /\ h \in Targets
    /\ fate[h] = "hangs"
    /\ \A j \in Targets \ {h} : fate[j] = "returns"

OthersReported(h) ==
    /\ h \in Targets
    /\ mainpc = "gather"
    /\ cur = 0
    /\ probe[h] = "running"
    /\ semaphore = max_workers - 1
    /\ \A j \in Targets \ {h} :
          /\ pc[j] = "done"
          /\ results[j] # None
          /\ (isatty /\ ~no_color) =>
                term.screen[j - 1] = RenderLine(names[j], results[j], TRUE)

\* C6: with a cap of at least 2 and one probe that never returns, each task
\* holds one slot while admitted, the hung one never more than one, and
\* unless the run is interrupted every other target is eventually probed,
\* written and (interactive mode) repainted: the run can only come to rest
\* with the hung probe alone outstanding.
C6_HungProbe ==
    /\ [](\A h \in 1..MaxTargets :
             (OneHung(h) /\ mainpc = "gather") =>
                semaphore = max_workers - Cardinality(Holding))
    /\ [](\A h \in 1..MaxTargets :
             (OneHung(h) /\ ~interrupted /\ Quiescent) => OthersReported(h))
    /\ [][(\E h \in 1..MaxTargets : OneHung(h)) => Rank' < Rank]_vars

C6_Witness ==
    /\ Quiescent
    /\ N >= 3
    /\ max_workers = 2
    /\ ~interrupted
    /\ OneHung(1)
    /\ OthersReported(1)

RestoredTerminal ==
    LET top == IF isatty /\ ~no_color THEN N ELSE 0 IN
    /\ term.row = top + 2
    /\ term.screen[top] = Blank
    /\ term.screen[top + 1] = <<"Interrupted.">>
    /\ \A r \in Rows :
          HasAnsi(term.screen[r]) => term.screen[r][Len(term.screen[r])] = ANSI_RESET
    /\ \A i \in 1..top : term.screen[i - 1] = RenderLine(names[i], results[i], TRUE)

\* C9: from the interrupt on, no task is admitted and no new probe job is
\* created; when the run ends after an interrupt it ends normally, with the
\* cursor on a fresh row below intact, colour-reset output; and once the
\* probes in flight have left _check_repo the run can only come to rest
\* ended in that way.
C9_Interrupt ==
    /\ [][interrupted' =>
             /\ Rank' < Rank
             /\ \A i \in Targets :
                   /\ probe[i] = "none" => probe'[i] = "none"
                   /\ pc'[i] \in {"woken", "probing"} => pc[i] = pc'[i] /\ ~interrupted]_vars
    /\ [](mainpc = "interrupted" => exit = "ok" /\ RestoredTerminal)
    /\ [](interrupted => exit # "traceback")
    /\ []((interrupted /\ Quiescent /\ \A i \in Targets : fate[i] # "hangs") =>
             mainpc = "interrupted")

C9_Witness ==
    /\ mainpc = "interrupted"
    /\ exit = "ok"
    /\ \E i \in Targets : pc[i] = "cancelled" /\ probe[i] = "none"
    /\ \E i \in Targets : probe[i] = "returned" /\ results[i] = None
    /\ \E i \in Targets : results[i] # None

\* C5 (as claimed): no probe ever raises and the run never ends in an
\* uncaught exception.
C5_ProbeNeverRaises ==
    /\ \A i \in Targets : probe[i] # "raised"
    /\ exit # "traceback"
    /\ mainpc = "complete" => Populated

Unborn(env) ==
    /\ env.ok
    /\ env.inside.code = 0
    /\ env.branch = Resp(128, "", UNBORN_ERR)

\* C10 (as claimed): for a repository whose HEAD is unborn, _check_repo
\* returns the no-commits label as branch, no error, and is_clean computed
\* from the porcelain output.
C10_UnbornHead ==
    (probeOut # NotRun /\ Unborn(probeEnv)) =>
       /\ probeOut.ret.branch = LABEL_NO_COMMITS
       /\ probeOut.ret.error = NoStr
       /\ Q_STATUS \in {probeOut.calls[k] : k \in 1..Len(probeOut.calls)}
       /\ probeEnv.status.code = 0 =>
             probeOut.ret.is_clean =
                IF strip(probeEnv.status.out) = "" THEN "True" ELSE "False"

\* the stand-alone call has returned a result (it did not raise)
Probed == probeOut # NotRun /\ probeOut.ret # Raise

\* C11: for a path that is not a work tree (the is-inside-work-tree query
\* fails) _check_repo returns is_repo false with branch, is_clean and error
\* all None, and issues no query after the first.
C11_NotARepo ==
    (probeOut # NotRun /\ probeEnv.ok /\ probeEnv.inside.code # 0) =>
       /\ probeOut.ret # Raise
       /\ probeOut.ret.is_repo = FALSE
       /\ probeOut.ret.branch = NoStr
       /\ probeOut.ret.is_clean = NoBool
       /\ probeOut.ret.error = NoStr
       /\ probeOut.ret.name = names_and_paths[1][1]
       /\ probeOut.ret.path = names_and_paths[1][2]
       /\ DOMAIN probeOut.ret = {"name", "path", "is_repo", "branch", "is_clean", "error"}
       /\ probeOut.calls = <<Q_INSIDE>>

C11_Witness ==
    /\ Probed
    /\ probeEnv.inside.code = 128
    /\ probeEnv.branch.code = 0
    /\ probeOut.ret.is_repo = FALSE
    /\ Len(probeOut.calls) = 1

\* C12 (as claimed): when the branch and status queries succeed, the result
\* carries an upstream and an origin-URL field, both None after their failed
\* lookups, beside error None and branch and is_clean populated.
C12_UpstreamAbsent ==
    (Probed /\ probeEnv.inside.code = 0 /\ probeEnv.branch.code = 0
            /\ probeEnv.status.code = 0) =>
       /\ probeOut.ret.error = NoStr
       /\ probeOut.ret.branch # NoStr
       /\ probeOut.ret.is_clean \in {"True", "False"}
       /\ "upstream_ref" \in DOMAIN probeOut.ret
       /\ "origin_url" \in DOMAIN probeOut.ret
       /\ probeOut.ret.upstream_ref = NoStr
       /\ probeOut.ret.origin_url = NoStr

\* C16 (as claimed): a failed branch lookup (other than an unborn HEAD) gives
\* error set, is_clean None and no status query; a failed status query gives
\* error set and is_clean None; whatever the exit code and the error text.
C16_FailureRecorded ==
    (Probed /\ probeEnv.inside.code = 0) =>
       /\ (probeEnv.branch.code # 0 /\ probeEnv.branch.err # UNBORN_ERR) =>
             /\ probeOut.ret.error # NoStr
             /\ probeOut.ret.is_clean = NoBool
             /\ probeOut.calls = <<Q_INSIDE, Q_BRANCH>>
       /\ (probeEnv.branch.code = 0 /\ probeEnv.status.code # 0) =>
             /\ probeOut.ret.error # NoStr
             /\ probeOut.ret.is_clean = NoBool

\* the words of a line: its text without colour codes and separators
IsWord(t) == t \notin AnsiCodes /\ t # "  "
Plain(line) == SelectSeq(line, IsWord)

\* result-table snapshots built from empty slots, a non-repository result
\* and the result the stand-alone call returned
SlotValues ==
    {None, RepoResult("other", "/base/other", FALSE, NoStr, NoBool, NoStr)}
       \cup (IF Probed THEN {probeOut.ret} ELSE {})

Snapshots == UNION {[1..n -> SlotValues] : n \in 1..MaxTargets}

\* what the claim says a line for this slot reads
ExpectedWords(nm, v) ==
    IF v = None THEN <<nm, "pending">>
    ELSE IF ~v.is_repo THEN <<nm, "not a git repo">>
    ELSE <<nm,
           IF v.branch = NoStr THEN "unknown"
           ELSE IF v.branch = "HEAD" THEN "detached" ELSE v.branch,
           IF v.is_clean = "True" THEN "clean"
           ELSE IF v.is_clean = "False" THEN "dirty" ELSE "unknown">>
         \o (IF v.error # NoStr THEN <<"error">> ELSE <<>>)

\* C17: for every snapshot of the table _render_lines returns one line per
\* target, in target order; line i starts with target i's name and reads
\* pending iff the slot is empty, not-a-repo iff the result is not a
\* repository, and otherwise the branch label, one of clean / dirty /
\* unknown, and the error marker iff the error is set.
C17_RenderLines ==
    \A tab \in Snapshots : \A colour \in BOOLEAN :
       LET nms == [i \in 1..Len(tab) |-> Name(i)]
           lines == _render_lines(nms, tab, colour)
       IN  /\ Len(lines) = Len(tab)
           /\ \A i \in 1..Len(tab) :
                 /\ Head(lines[i]) = nms[i]
                 /\ Plain(lines[i]) = ExpectedWords(nms[i], tab[i])
                 /\ HasAnsi(lines[i]) = colour

C17_Witness ==
    /\ Probed
    /\ probeOut.ret.is_repo
    /\ probeOut.ret.error # NoStr
    /\ probeOut.ret.branch = "main"
    /\ Plain(RenderLine("x", probeOut.ret, TRUE)) = <<"x", "main", "unknown", "error">>

\* C15 (as claimed): a unit of work releases its admission slot only after it
\* has written its result and repainted, so a task that has given its slot
\* back has its result in the table.
C15_ReleaseLast ==
    \A i \in Targets :
       /\ pc[i] = "released" => results[i] # None
       /\ (pc[i] = "written" /\ isatty /\ ~no_color) =>
             term.screen[i - 1] = RenderLine(names[i], results[i], TRUE)

IsPending(line) == \E k \in 1..Len(line) : line[k] = "pending"
ShownDone == {i \in Targets : ~IsPending(term.screen[i - 1])}

\* C19: in interactive mode the first block shows every line pending, the
\* block after the k-th repaint shows exactly k lines that are not pending,
\* each showing the table's slot; a line that is no longer pending never
\* shows pending again, and the block of a completed run has no pending line.
C19_Snapshots ==
    /\ []((isatty /\ ~no_color /\ term.blocks >= 1) =>
             /\ Cardinality(ShownDone) = term.blocks - 1
             /\ \A i \in ShownDone : term.screen[i - 1] = RenderLine(names[i], results[i], TRUE)
             /\ \A i \in Targets \ ShownDone : results[i] = None \/ (cur = i /\ pc[i] = "written")
             /\ mainpc = "complete" => ShownDone = Targets /\ term.blocks = N + 1)
    /\ [][(isatty /\ ~no_color /\ term.blocks >= 1) =>
             /\ \A i \in Targets : ~IsPending(term.screen[i - 1]) => ~IsPending(term'.screen[i - 1])
             /\ term'.blocks \in {term.blocks, term.blocks + 1}]_vars

C19_Witness ==
    /\ isatty
    /\ ~no_color
    /\ N = MaxTargets
    /\ term.blocks = N
    /\ Cardinality(ShownDone) = N - 1
    /\ cur = 0

\* C20: the cap reaches the semaphore unchecked; with max_workers = 0 no task
\* is ever admitted, no probe job is ever created, every slot stays empty
\* and the run never completes; a run that completes had max_workers >= 1.
C20_ZeroWorkers ==
    /\ mainpc \notin {"entry"} /\ ~interrupted /\ mainpc # "raising" =>
          semaphore + Cardinality(Holding) = max_workers
    /\ max_workers = 0 =>
          /\ \A i \in Targets : probe[i] = "none" /\ fut[i] = None
          /\ \A i \in Targets : pc[i] \in {"none", "ready", "waiting", "cancelled"}
          /\ mainpc # "entry" => \A i \in Targets : results[i] = None
          /\ mainpc \notin {"complete", "raising", "crashed"}
          /\ (Quiescent /\ ~interrupted) =>
                mainpc = "gather" /\ \A i \in Targets : pc[i] = "waiting"
    /\ mainpc = "complete" => max_workers >= 1

C20_Witness ==
    /\ max_workers = 0
    /\ N >= 2
    /\ Quiescent
    /\ mainpc = "gather"
    /\ Len(waiters) = N

\* ---- scan-target builder ----
ParentOf(t) == SubSeq(t.path, 1, Len(t.path) - 1)
BareName(t) == t.path[Len(t.path)]
GroupOf(R) == SelectSeq(scanOut.targets, LAMBDA t : ParentOf(t) = R)

\* names of the immediate subdirectories of R that pass the filters
Qualifying(R) ==
    {e.name : e \in {x \in SeqRange(Listing(scanIn, R)) :
                        /\ x.dir
                        /\ scanIn.include_hidden \/ ~IsHidden(x.name)
                        /\ x.name \notin scanIn.ignore_entries}}

\* C18: for each root the listed targets are exactly its immediate
\* subdirectories that are not hidden (unless hidden ones are included) and
\* not ignored, each once, in case-insensitive name order; nothing is listed
\* that is not such a subdirectory of a root, so a root without qualifying
\* subdirectories contributes nothing.
C18_PerRoot ==
    scanOut.built =>
        /\ \A R \in SeqRange(scanIn.roots) :
              LET g == GroupOf(R)
              IN  /\ {BareName(g[k]) : k \in 1..Len(g)} = Qualifying(R)
                  /\ Len(g) = Cardinality(Qualifying(R))
                  /\ \A k \in 1..(Len(g) - 1) :
                        KeyOrd(lower(BareName(g[k]))) <= KeyOrd(lower(BareName(g[k + 1])))
        /\ \A k \in 1..Len(scanOut.targets) :
              ParentOf(scanOut.targets[k]) \in SeqRange(scanIn.roots)

\* a hidden directory and an ignored directory were enumerated and left out,
\* and another directory was listed
C18_Witness ==
    /\ scanOut.built
    /\ ~scanIn.include_hidden
    /\ Entry(".h", TRUE) \in SeqRange(scanIn.ls_base)
    /\ \E e \in SeqRange(scanIn.ls_base) : e.dir /\ e.name \in scanIn.ignore_entries
    /\ scanIn.roots[1] = BASE
    /\ Len(GroupOf(BASE)) >= 1

\* root j is a subdirectory listed under the earlier root i, at position k
NestedAt(i, j, k) ==
    /\ i < j
    /\ k \in 1..Len(scanOut.targets)
    /\ scanOut.targets[k].path = scanIn.roots[j]
    /\ ParentOf(scanOut.targets[k]) = scanIn.roots[i]

Orders(q) ==
    {r \in [1..Len(q) -> SeqRange(q)] : SeqRange(r) = SeqRange(q)}

\* C14: the scan list depends only on the set of directory entries, not on
\* the order the filesystem enumerates them in, names differing only in
\* letter case included.
C14_OrderIndependent ==
    scanOut.built =>
        \A p \in Orders(scanIn.ls_base) : \A q \in Orders(scanIn.ls_b) :
            _build_scan_list([scanIn EXCEPT !.ls_base = p, !.ls_b = q]) = scanOut.targets

====
